---- MODULE Spec2Model ----
(***************************************************************************)
(* The language/version flyout widget (ltd-flyout): the URL resolver       *)
(* getTargetUrl, the select-change handlers that navigate to its result,   *)
(* and the click handlers that keep the widget's visibility classes.       *)
(*                                                                         *)
(* Strings are sequences of tokens.  A token is either the separator "/"   *)
(* or a maximal run of characters without "/", so a substring search for   *)
(* "/<code>/" in a path is a subsequence search for <<"/", code, "/">>.    *)
(* One behaviour is the lifetime of one page load: the page context        *)
(* (href, current codes) is fixed at load time and never changes.          *)
(***************************************************************************)
EXTENDS Integers, Sequences, FiniteSets

VARIABLES
    href,           \* window.location.href of the loaded page
    curLang,        \* CURRENT_OPTIONS.CURRENT_LANGUAGE
    curVer,         \* CURRENT_OPTIONS.CURRENT_VERSION
    contentClosed,  \* .ltd-flyout-content has class ltd-flyout-closed
    dividerClosed,  \* .ltd-flyout-divider has class ltd-flyout-closed
    labelHidden,    \* .ltd-flyout-header-label has class hidden
    iconOnly,       \* .ltd-flyout-header has class ltd-icon-only
    lastClick,      \* the listeners that ran for the last click, and where it landed
    selections,     \* the change events so far, in order: [type, value]
    pending,        \* ids (positions in selections) whose HEAD probe is in flight
    requests,       \* the HEAD requests issued so far: [id, url]
    resolved,       \* the resolution that completed last: [id, outcome, url]
    navTarget,      \* the URL last assigned to window.location.href, <<>> if none
    config,         \* CONFIG_OPTIONS: the language, version and project lists
    dom,            \* what the script has put into the document
    startup,        \* the startup functions called so far, in call order
    pc,             \* "loading" until DOMContentLoaded has been handled
    twin            \* the same page with the second variant of the script

ctx  == <<href, curLang, curVer>>
vis  == <<contentClosed, dividerClosed, labelHidden, iconOnly, lastClick>>
nav  == <<selections, pending, requests, resolved, navTarget>>
page == <<config, dom, startup, pc>>
vars == <<ctx, vis, nav, page, twin>>

----------------------------------------------------------------------------
(* Bounds of the model. *)

\* Directory segments of the page path in front of the file name.
MaxDirs == 2
\* Select-change events during one page load.
MaxSelections == 2
\* Entries of a configuration list.
MaxEntries == 3

----------------------------------------------------------------------------
(* Configuration (config.js) and page context (current.js, window). *)

\* CONFIG_OPTIONS.CONFIG_LANGUAGES: ordered (code, name) pairs; "newline" is
\* the layout sentinel.
ConfigLanguages ==
    << <<"en-us", "English">>, <<"newline", "">>, <<"zh-cn", "Chinese">> >>

\* CONFIG_OPTIONS.CONFIG_VERSIONS: codes need not be unique ("3.9" twice).
ConfigVersions ==
    << <<"latest", "Latest Release">>, <<"3.9", "Release 3.9">>,
       <<"3.9", "Release 3.9">> >>

\* CONFIG_OPTIONS.CONFIG_PROJECTS: ordered (project, link) pairs.
ConfigProjects ==
    << <<"Index", "https://projects.example.org">>, <<"newline", "">>,
       <<"GitHub", "https://github.example.org">> >>

\* config.js as shipped with the page
DefaultConfig ==
    [languages |-> ConfigLanguages, versions |-> ConfigVersions,
     projects |-> ConfigProjects]

\* The entries a configuration list is made of; entry 0 is the sentinel.
LanguageEntry(c) ==
    IF c = 0 THEN <<"newline", "">>
    ELSE IF c = 1 THEN <<"en-us", "English">> ELSE <<"zh-cn", "Chinese">>
VersionEntry(c) ==
    IF c = 0 THEN <<"newline", "">>
    ELSE IF c = 1 THEN <<"latest", "Latest Release">> ELSE <<"3.9", "Release 3.9">>
ProjectEntry(c) ==
    IF c = 0 THEN <<"newline", "">>
    ELSE IF c = 1 THEN <<"Index", "https://projects.example.org">>
    ELSE <<"GitHub", "https://github.example.org">>

\* Every way to fill a list of at most MaxEntries entries
Shapes == UNION {[1..n -> 0..2] : n \in 0..MaxEntries}

\* The configurations: the language and the version list filled the same
\* way, the project list on its own.
Configs ==
    {[languages |-> [i \in DOMAIN s |-> LanguageEntry(s[i])],
      versions  |-> [i \in DOMAIN s |-> VersionEntry(s[i])],
      projects  |-> [i \in DOMAIN t |-> ProjectEntry(t[i])]] :
        s \in Shapes, t \in Shapes}

\* Values CURRENT_OPTIONS can carry.  "latest" as a language makes the two
\* current codes equal.
CurrentLanguages == {"en-us", "latest"}
CurrentVersions  == {"latest"}

\* Names of the directories and of the last segment of a page path.
DirNames  == {"en-us", "latest"}
FileNames == {"guide.html"}

RECURSIVE DirSeqs(_)
DirSeqs(n) ==
    IF n = 0 THEN {<<>>}
    ELSE LET shorter == DirSeqs(n - 1)
         IN  shorter \cup {Append(d, s) : d \in {x \in shorter : Len(x) = n - 1},
                                          s \in DirNames}

RECURSIVE Joined(_)
\* "/" + dirs[1] + "/" + ... + "/" : every directory followed by a separator
Joined(dirs) ==
    IF dirs = <<>> THEN <<>>
    ELSE <<Head(dirs), "/">> \o Joined(Tail(dirs))

\* window.location.pathname of the pages considered
Pathnames ==
    {<<"/">> \o Joined(d) \o <<f>> : d \in DirSeqs(MaxDirs), f \in FileNames}

FileHref(path)   == <<"file:", "/", "/">> \o path
ServedHref(path) == <<"https:", "/", "/", "example.org">> \o path
Hrefs == {FileHref(p) : p \in Pathnames} \cup {ServedHref(p) : p \in Pathnames}

\* uri.startsWith("file:/")
is_file_uri(uri) == Len(uri) >= 2 /\ uri[1] = "file:" /\ uri[2] = "/"

IS_LOCAL == is_file_uri(href)

\* window.location.pathname: what follows scheme and authority
Pathname == IF is_file_uri(href) THEN SubSeq(href, 4, Len(href))
            ELSE SubSeq(href, 5, Len(href))

\* window.location.origin ("null" for a file: page)
SERVER_ROOT == IF is_file_uri(href) THEN <<"null">> ELSE SubSeq(href, 1, 4)

\* document.currentScript.src: the script sits in the root of the
\* <lang>/<version> tree
FLYOUT_JS_FILE ==
    IF is_file_uri(href)
    THEN <<"file:", "/", "/", "/", "site", "/", "ltd-flyout.js">>
    ELSE <<"https:", "/", "/", "example.org", "/", "ltd-flyout.js">>

\* s.lastIndexOf('/'), 1-based; 0 when there is none
LastIndexOfSlash(s) ==
    IF \E i \in 1..Len(s) : s[i] = "/"
    THEN CHOOSE i \in 1..Len(s) : s[i] = "/" /\ \A j \in (i+1)..Len(s) : s[j] # "/"
    ELSE 0

FLYOUT_JS_DIR == SubSeq(FLYOUT_JS_FILE, 1, LastIndexOfSlash(FLYOUT_JS_FILE) - 1)

----------------------------------------------------------------------------
(* String.prototype.replace with a string pattern: the first occurrence   *)
(* only.  The codes considered hold no "$", so the replacement string has  *)
(* no special patterns and is inserted as it is.                           *)

MatchAt(s, pat, i) ==
    /\ i + Len(pat) - 1 <= Len(s)
    /\ SubSeq(s, i, i + Len(pat) - 1) = pat

\* s.indexOf(pat), 1-based; 0 when pat does not occur
IndexOf(s, pat) ==
    IF \E i \in 1..Len(s) : MatchAt(s, pat, i)
    THEN CHOOSE i \in 1..Len(s) :
            MatchAt(s, pat, i) /\ \A j \in 1..(i - 1) : ~MatchAt(s, pat, j)
    ELSE 0

\* Mutant: a missing segment is not left alone, the replacement is put in
\* front of the path.
ReplaceFirst_InsertOnMiss(s, pat, rep) ==
    LET i == IndexOf(s, pat)
    IN  IF i = 0 THEN SubSeq(rep, 1, Len(rep) - 1) \o s
        ELSE SubSeq(s, 1, i - 1) \o rep \o SubSeq(s, i + Len(pat), Len(s))

\* lines 31, 33: String.prototype.replace with a string pattern
ReplaceFirst(s, pat, rep) ==
    LET i == IndexOf(s, pat)
    IN  IF i = 0 THEN s
        ELSE SubSeq(s, 1, i - 1) \o rep \o SubSeq(s, i + Len(pat), Len(s))

\* the template literal `/${code}/`
Segment(code) == <<"/", code, "/">>

----------------------------------------------------------------------------
(* getTargetUrl *)

Axes == {"language", "version"}
ProbeOutcomes == {"ok", "notok", "error"}

\* Mutant: the replacement is `${selectedValue}/`, its leading separator
\* is missing.
TargetPath_NoLeadingSlash(type, selectedValue) ==
    IF type = "language"
    THEN ReplaceFirst(Pathname, Segment(curLang), <<selectedValue, "/">>)
    ELSE IF type = "version"
    THEN ReplaceFirst(Pathname, Segment(curVer), <<selectedValue, "/">>)
    ELSE <<"undefined">>

\* lines 26-34: the current path with the axis's current code replaced;
\* for any other type targetPath stays undefined (line 27), which the
\* template literal of lines 37-39 renders as the text "undefined"
TargetPath(type, selectedValue) ==
    IF type = "language"
    THEN ReplaceFirst(Pathname, Segment(curLang), Segment(selectedValue))
    ELSE IF type = "version"
    THEN ReplaceFirst(Pathname, Segment(curVer), Segment(selectedValue))
    ELSE <<"undefined">>

\* lines 37-39
TargetUrl(type, selectedValue) ==
    IF IS_LOCAL
    THEN <<"file:", "/", "/">> \o TargetPath(type, selectedValue)
    ELSE SERVER_ROOT \o TargetPath(type, selectedValue)

\* lines 60-62
FallbackUrl(type, selectedValue) ==
    FLYOUT_JS_DIR \o <<"/">>
    \o <<IF type = "language" THEN selectedValue ELSE curLang>> \o <<"/">>
    \o <<IF type = "version" THEN selectedValue ELSE curVer>>
    \o <<"/", "index.html">>

\* Mutant: the early return of line 42 is missing, a local page probes too.
ReturnsBeforeProbe_NoShortCircuit == FALSE

\* line 42: the local branch returns before fetch is called
ReturnsBeforeProbe == IS_LOCAL

\* Mutant: the response is tested for presence, not for response.ok, so a
\* non-success status returns the probed URL.
AfterProbe_AnyResponse(type, selectedValue, outcome) ==
    IF outcome \in {"ok", "notok"}
    THEN [threw |-> FALSE, value |-> TargetUrl(type, selectedValue)]
    ELSE [threw |-> FALSE, value |-> FallbackUrl(type, selectedValue)]

\* Mutant: no try/catch around fetch, a network failure leaves the call as
\* an exception.
AfterProbe_NoCatch(type, selectedValue, outcome) ==
    IF outcome = "ok"
    THEN [threw |-> FALSE, value |-> TargetUrl(type, selectedValue)]
    ELSE IF outcome = "error"
    THEN [threw |-> TRUE, value |-> <<>>]
    ELSE [threw |-> FALSE, value |-> FallbackUrl(type, selectedValue)]

\* lines 44-62, from the point where fetch settles: what the call delivers.
\* threw = TRUE would be an exception leaving getTargetUrl.
AfterProbe(type, selectedValue, outcome) ==
    IF outcome = "ok"
    THEN [threw |-> FALSE, value |-> TargetUrl(type, selectedValue)]
    ELSE [threw |-> FALSE, value |-> FallbackUrl(type, selectedValue)]

----------------------------------------------------------------------------
(* createFlyout: the rendered options *)

\* Mutant: only the first row of the current code is marked selected.
OptionsOf_FirstRowOnly(entries, current) ==
    LET kept == SelectSeq(entries, LAMBDA e : e[1] # "newline")
    IN  [i \in DOMAIN kept |->
            [value |-> kept[i][1],
             selected |-> /\ kept[i][1] = current
                          /\ \A j \in 1..(i - 1) : kept[j][1] # current]]

RECURSIVE OptionsOf(_, _)
\* filter(code !== "newline").map(...): one option per non-sentinel entry
OptionsOf(entries, current) ==
    IF entries = <<>> THEN <<>>
    ELSE LET code == Head(entries)[1]
             rest == OptionsOf(Tail(entries), current)
         IN  IF code # "newline"
             THEN <<[value |-> code, selected |-> (code = current)]>> \o rest
             ELSE rest

\* lines 73-75, 77-79
languageOptions == OptionsOf(config.languages, curLang)
versionOptions  == OptionsOf(config.versions, curVer)

\* Mutant: the project list is filtered like the two option lists, the
\* sentinel leaves nothing behind.
sortedProjects_SentinelDropped ==
    LET kept == SelectSeq(config.projects, LAMBDA e : e[1] # "newline")
    IN  [i \in DOMAIN kept |->
            [class |-> "options", href |-> kept[i][2], text |-> kept[i][1]]]

\* lines 81-85: map(...): one <dd> per entry, a layout break for the
\* sentinel and a link for every other entry
sortedProjects ==
    [i \in DOMAIN config.projects |->
        IF config.projects[i][1] = "newline"
        THEN [class |-> "newline", href |-> "", text |-> ""]
        ELSE [class |-> "options", href |-> config.projects[i][2],
              text |-> config.projects[i][1]]]

\* the <option> rows of a select, as they stand in the document
Options(type) ==
    IF type = "language" THEN dom.languageOptions ELSE dom.versionOptions

\* The option a single select shows after parsing: the last one carrying
\* the selected attribute, the first one when none does.
InitialIndex(options) ==
    IF \E i \in 1..Len(options) : options[i].selected
    THEN CHOOSE i \in 1..Len(options) :
            options[i].selected /\ \A j \in (i+1)..Len(options) : ~options[j].selected
    ELSE 1

OptionValues(type) == {Options(type)[i].value : i \in 1..Len(Options(type))}

RECURSIVE ShownValue(_, _)
\* event.target.value of the select of this axis as it stands after the
\* change events `sels`
ShownValue(type, sels) ==
    IF sels = <<>> THEN Options(type)[InitialIndex(Options(type))].value
    ELSE IF sels[Len(sels)].type = type THEN sels[Len(sels)].value
    ELSE ShownValue(type, SubSeq(sels, 1, Len(sels) - 1))

\* A change event fires when another option is picked: one with another
\* value, or another row carrying the same value.
CanChangeTo(type, value, sels) ==
    /\ value \in OptionValues(type)
    /\ \/ value # ShownValue(type, sels)
       \/ Cardinality({i \in 1..Len(Options(type)) :
                          Options(type)[i].value = value}) > 1

----------------------------------------------------------------------------
(* Click dispatch: the event bubbles from its target up to the document. *)

Parent ==
    [iconImg |-> "icon", icon |-> "header", label |-> "header",
     header |-> "flyout", divider |-> "flyout", content |-> "flyout",
     languageSelect |-> "content", versionSelect |-> "content",
     flyout |-> "body", article |-> "body", body |-> "document"]

\* The elements a click is aimed at: one for each way the listeners see it
\* (inside the icon, inside the label, elsewhere in the header, inside the
\* content panel, and outside the widget).
ClickTargets == {"iconImg", "label", "header", "languageSelect", "article"}

RECURSIVE Contains(_, _)
\* ancestor.contains(node): node is ancestor or one of its descendants
Contains(ancestor, node) ==
    IF node = ancestor THEN TRUE
    ELSE IF node = "document" THEN FALSE
    ELSE Contains(ancestor, Parent[node])

\* Mutant: the label listener toggles the content and forgets the dividers.
LabelListener_ContentOnly(st) ==
    [st EXCEPT !.contentClosed = ~st.contentClosed,
               !.stopped = TRUE,
               !.ran = Append(@, "label")]

\* lines 147-151
LabelListener(st) ==
    LET isHidden == ~st.contentClosed
    IN  [st EXCEPT !.contentClosed = isHidden,
                   !.dividerClosed = isHidden,
                   !.stopped = TRUE,
                   !.ran = Append(@, "label")]

\* Mutant: the icon listener toggles the label and leaves the content as
\* it is (the block of lines 157-160 is missing).
IconListener_NoCollapse(st) ==
    LET hidden == ~st.labelHidden
    IN  [st EXCEPT !.labelHidden = hidden,
                   !.iconOnly = hidden,
                   !.stopped = TRUE,
                   !.ran = Append(@, "icon")]

\* lines 154-162
IconListener(st) ==
    LET hidden == ~st.labelHidden
    IN  [st EXCEPT !.labelHidden = hidden,
                   !.iconOnly = hidden,
                   !.contentClosed = IF hidden THEN TRUE ELSE @,
                   !.dividerClosed = IF hidden THEN TRUE ELSE @,
                   !.stopped = TRUE,
                   !.ran = Append(@, "icon")]

\* Mutant: the document listener toggles the class instead of adding it.
DocumentListener_Toggle(target, st) ==
    LET outside == ~Contains("flyout", target)
    IN  [st EXCEPT !.contentClosed = IF outside THEN ~@ ELSE @,
                   !.dividerClosed = IF outside THEN ~@ ELSE @,
                   !.ran = Append(@, "document")]

\* Mutant: the document listener collapses on every click it sees (the
\* flyout.contains test of line 166 is missing).
DocumentListener_NoContains(target, st) ==
    [st EXCEPT !.contentClosed = TRUE,
               !.dividerClosed = TRUE,
               !.ran = Append(@, "document")]

\* lines 165-170
DocumentListener(target, st) ==
    LET outside == ~Contains("flyout", target)
    IN  [st EXCEPT !.contentClosed = IF outside THEN TRUE ELSE @,
                   !.dividerClosed = IF outside THEN TRUE ELSE @,
                   !.ran = Append(@, "document")]

RunListeners(node, target, st) ==
    IF node = "label" THEN LabelListener(st)
    ELSE IF node = "icon" THEN IconListener(st)
    ELSE IF node = "document" THEN DocumentListener(target, st)
    ELSE st

RECURSIVE Bubble(_, _, _)
Bubble(node, target, st) ==
    LET after == RunListeners(node, target, st)
    IN  IF after.stopped \/ node = "document" THEN after
        ELSE Bubble(Parent[node], target, after)

Dispatch(target) ==
    Bubble(target, target,
           [contentClosed |-> contentClosed, dividerClosed |-> dividerClosed,
            labelHidden |-> labelHidden, iconOnly |-> iconOnly,
            stopped |-> FALSE, ran |-> <<>>])

----------------------------------------------------------------------------
(* The state machine *)

NoClick == [area |-> "none", ran |-> <<>>]
NoResolution == [id |-> 0, outcome |-> "none", url |-> <<>>]

\* where a click landed, as the document listener sees it
Area(target) == IF Contains("flyout", target) THEN "inside" ELSE "outside"

\* the document before the script has touched it
NoDom ==
    [styles |-> <<>>, flyouts |-> 0, languageOptions |-> <<>>,
     versionOptions |-> <<>>, projects |-> <<>>]

\* the text of the injected <style> element
Css == "ltd-flyout rules"

\* lines 189-363: one <style> element appended to <head>
addStyles(w) ==
    [w EXCEPT !.calls = Append(@, "addStyles"),
              !.dom.styles = Append(@, Css)]

\* Mutant: the content panel is inserted without ltd-flyout-closed.
createFlyout_ContentOpen(w) ==
    [w EXCEPT !.calls = Append(@, "createFlyout"),
              !.dom.flyouts = @ + 1,
              !.dom.languageOptions = languageOptions,
              !.dom.versionOptions = versionOptions,
              !.dom.projects = sortedProjects,
              !.contentClosed = FALSE,
              !.dividerClosed = TRUE,
              !.labelHidden = FALSE,
              !.iconOnly = FALSE]

\* lines 72-132: the widget subtree is built and inserted into <body>;
\* lines 87-98: divider and content carry ltd-flyout-closed, the label has
\* no `hidden` and the header no `ltd-icon-only`
createFlyout(w) ==
    [w EXCEPT !.calls = Append(@, "createFlyout"),
              !.dom.flyouts = @ + 1,
              !.dom.languageOptions = languageOptions,
              !.dom.versionOptions = versionOptions,
              !.dom.projects = sortedProjects,
              !.contentClosed = TRUE,
              !.dividerClosed = TRUE,
              !.labelHidden = FALSE,
              !.iconOnly = FALSE]

\* lines 179-181: nothing but the call
updateLinks(w) == [w EXCEPT !.calls = Append(@, "updateLinks")]

\* Mutant: the widget is built before the styles are injected.
OnDOMContentLoaded_WidgetFirst(w) == updateLinks(addStyles(createFlyout(w)))

\* lines 373-377: the body of the DOMContentLoaded listener
OnDOMContentLoaded(w) == updateLinks(createFlyout(addStyles(w)))

\* The second variant's page before its script has touched it: its
\* document, its startup calls, its classes, its probes and navigation.
NoTwin ==
    [dom |-> NoDom, startup |-> <<>>,
     contentClosed |-> FALSE, dividerClosed |-> FALSE,
     labelHidden |-> FALSE, iconOnly |-> FALSE,
     pending |-> {}, requests |-> <<>>, resolved |-> NoResolution,
     navTarget |-> <<>>]

\* lines 3-12: the script has run, the document is still loading.  No
\* widget element exists, so none of the classes is present.
Init ==
    /\ href \in Hrefs
    /\ curLang \in CurrentLanguages
    /\ curVer \in CurrentVersions
    /\ config = DefaultConfig
    /\ dom = NoDom
    /\ startup = <<>>
    /\ pc = "loading"
    /\ twin = NoTwin
    /\ contentClosed = FALSE
    /\ dividerClosed = FALSE
    /\ labelHidden = FALSE
    /\ iconOnly = FALSE
    /\ lastClick = NoClick
    /\ selections = <<>>
    /\ pending = {}
    /\ requests = <<>>
    /\ resolved = NoResolution
    /\ navTarget = <<>>

\* lines 373-377: the DOMContentLoaded event, dispatched once per page
\* load.  The listener runs to its end (the await of the empty updateLinks
\* resumes in the same turn of the event loop).
DOMContentLoaded ==
    /\ pc = "loading"
    /\ LET w == OnDOMContentLoaded(
                    [calls |-> startup, dom |-> dom,
                     contentClosed |-> contentClosed,
                     dividerClosed |-> dividerClosed,
                     labelHidden |-> labelHidden, iconOnly |-> iconOnly])
       IN  /\ startup' = w.calls
           /\ dom' = w.dom
           /\ contentClosed' = w.contentClosed
           /\ dividerClosed' = w.dividerClosed
           /\ labelHidden' = w.labelHidden
           /\ iconOnly' = w.iconOnly
    /\ pc' = "ready"
    /\ UNCHANGED <<ctx, config, lastClick, nav>>

\* A click on `target`: every listener on the way up runs in the same step.
Click(target) ==
    LET st == Dispatch(target)
    IN  /\ dom.flyouts > 0
        /\ contentClosed' = st.contentClosed
        /\ dividerClosed' = st.dividerClosed
        /\ labelHidden' = st.labelHidden
        /\ iconOnly' = st.iconOnly
        /\ lastClick' = [area |-> Area(target), ran |-> st.ran]
        /\ UNCHANGED <<ctx, nav, page>>

\* Mutant: the change handler also collapses the content panel before it
\* resolves the target.
SelectChange_CollapsesContent(type, value) ==
    /\ dom.flyouts > 0
    /\ Len(selections) < MaxSelections
    /\ CanChangeTo(type, value, selections)
    /\ LET id == Len(selections) + 1
       IN  /\ selections' = Append(selections, [type |-> type, value |-> value])
           /\ IF ReturnsBeforeProbe
              THEN /\ resolved' = [id |-> id, outcome |-> "none",
                                 url |-> TargetUrl(type, value)]
                   /\ navTarget' = TargetUrl(type, value)
                   /\ UNCHANGED <<pending, requests>>
              ELSE /\ requests' = Append(requests,
                          [id |-> id, method |-> "HEAD",
                           url |-> TargetUrl(type, value)])
                   /\ pending' = pending \cup {id}
                   /\ UNCHANGED <<resolved, navTarget>>
    /\ contentClosed' = TRUE
    /\ dividerClosed' = TRUE
    /\ UNCHANGED <<ctx, labelHidden, iconOnly, lastClick, page>>

\* lines 135-144: a change event of the select of axis `type`, whose value
\* is `value` now.  getTargetUrl runs up to its first suspension.
SelectChange(type, value) ==
    /\ dom.flyouts > 0
    /\ Len(selections) < MaxSelections
    /\ CanChangeTo(type, value, selections)
    /\ LET id == Len(selections) + 1
       IN  /\ selections' = Append(selections, [type |-> type, value |-> value])
           /\ IF ReturnsBeforeProbe
              THEN /\ resolved' = [id |-> id, outcome |-> "none",
                                 url |-> TargetUrl(type, value)]
                   /\ navTarget' = TargetUrl(type, value)
                   /\ UNCHANGED <<pending, requests>>
              ELSE /\ requests' = Append(requests,
                          [id |-> id, method |-> "HEAD",
                           url |-> TargetUrl(type, value)])
                   /\ pending' = pending \cup {id}
                   /\ UNCHANGED <<resolved, navTarget>>
    /\ UNCHANGED <<ctx, vis, page>>

LanguageChange(value) == SelectChange("language", value)
VersionChange(value)  == SelectChange("version", value)

\* Mutant: a probe that did not succeed is issued again and the resolution
\* stays pending.
ProbeSettles_RetryOnFailure(id, outcome) ==
    /\ id \in pending
    /\ LET sel == selections[id]
           r   == AfterProbe(sel.type, sel.value, outcome)
       IN  IF outcome = "ok"
           THEN /\ pending' = pending \ {id}
                /\ resolved' = [id |-> id, outcome |-> outcome, url |-> r.value]
                /\ navTarget' = r.value
                /\ UNCHANGED requests
           ELSE /\ Len(requests) < 2 * MaxSelections
                /\ requests' = Append(requests,
                       [id |-> id, method |-> "HEAD",
                        url |-> TargetUrl(sel.type, sel.value)])
                /\ UNCHANGED <<pending, resolved, navTarget>>
    /\ UNCHANGED <<ctx, vis, page, selections>>

\* Mutant: the handler drops a result that is not for the newest selection.
ProbeSettles_NewestOnly(id, outcome) ==
    /\ id \in pending
    /\ LET sel == selections[id]
           r   == AfterProbe(sel.type, sel.value, outcome)
       IN  /\ pending' = pending \ {id}
           /\ resolved' = [id |-> id, outcome |-> outcome,
                           url |-> IF r.threw THEN <<>> ELSE r.value]
           /\ navTarget' = IF r.threw \/ id # Len(selections)
                            THEN navTarget ELSE r.value
    /\ UNCHANGED <<ctx, vis, page, selections, requests>>

\* Mutant: before the fallback is returned it is probed as well.
ProbeSettles_ProbesFallback(id, outcome) ==
    /\ id \in pending
    /\ LET sel == selections[id]
           r   == AfterProbe(sel.type, sel.value, outcome)
       IN  /\ pending' = pending \ {id}
           /\ resolved' = [id |-> id, outcome |-> outcome,
                           url |-> IF r.threw THEN <<>> ELSE r.value]
           /\ navTarget' = IF r.threw THEN navTarget ELSE r.value
           /\ requests' = IF outcome = "ok" THEN requests
                          ELSE Append(requests,
                                   [id |-> id, method |-> "HEAD",
                                    url |-> FallbackUrl(sel.type, sel.value)])
    /\ UNCHANGED <<ctx, vis, page, selections>>

\* The probe of resolution `id` settles; getTargetUrl resumes and returns,
\* and the handler assigns the result to window.location.href.
ProbeSettles(id, outcome) ==
    /\ id \in pending
    /\ LET sel == selections[id]
           r   == AfterProbe(sel.type, sel.value, outcome)
       IN  /\ pending' = pending \ {id}
           /\ resolved' = [id |-> id, outcome |-> outcome,
                           url |-> IF r.threw THEN <<>> ELSE r.value]
           /\ navTarget' = IF r.threw THEN navTarget ELSE r.value
    /\ UNCHANGED <<ctx, vis, page, selections, requests>>

\* The page runs the first variant of the script.
Next ==
    \/ DOMContentLoaded /\ UNCHANGED twin
    \/ \E t \in ClickTargets : Click(t) /\ UNCHANGED twin
    \/ \E v \in OptionValues("language") : LanguageChange(v) /\ UNCHANGED twin
    \/ \E v \in OptionValues("version") : VersionChange(v) /\ UNCHANGED twin
    \/ \E id \in 1..MaxSelections, o \in ProbeOutcomes :
          ProbeSettles(id, o) /\ UNCHANGED twin

Spec == Init /\ [][Next]_vars

\* Every issued probe settles and the continuation awaiting it runs: fetch
\* settles its promise, and the event loop runs the awaiting continuations.
Fairness ==
    \A id \in 1..MaxSelections :
        WF_vars(\E o \in ProbeOutcomes : ProbeSettles(id, o) /\ UNCHANGED twin)

\* The page of the specification's scenarios, /en-us/latest/guide.html in
\* English, served or opened from the file system, still loading.
ExamplePath == <<"/", "en-us", "/", "latest", "/", "guide.html">>

InitExample ==
    /\ href \in {FileHref(ExamplePath), ServedHref(ExamplePath)}
    /\ curLang = "en-us"
    /\ curVer = "latest"
    /\ config = DefaultConfig
    /\ dom = NoDom
    /\ startup = <<>>
    /\ pc = "loading"
    /\ twin = NoTwin
    /\ contentClosed = FALSE
    /\ dividerClosed = FALSE
    /\ labelHidden = FALSE
    /\ iconOnly = FALSE
    /\ lastClick = NoClick
    /\ selections = <<>>
    /\ pending = {}
    /\ requests = <<>>
    /\ resolved = NoResolution
    /\ navTarget = <<>>

\* The widget on the example page, all events interleaved, with fair probes.
FairSpec == InitExample /\ [][Next]_vars /\ Fairness

\* Page loads under every configuration: the lists are rendered by the
\* startup step.
InitRender ==
    /\ href = ServedHref(ExamplePath)
    /\ curLang \in CurrentLanguages
    /\ curVer \in CurrentVersions
    /\ config \in Configs
    /\ dom = NoDom
    /\ startup = <<>>
    /\ pc = "loading"
    /\ twin = NoTwin
    /\ contentClosed = FALSE
    /\ dividerClosed = FALSE
    /\ labelHidden = FALSE
    /\ iconOnly = FALSE
    /\ lastClick = NoClick
    /\ selections = <<>>
    /\ pending = {}
    /\ requests = <<>>
    /\ resolved = NoResolution
    /\ navTarget = <<>>

NextRender == DOMContentLoaded /\ UNCHANGED twin

RenderSpec == InitRender /\ [][NextRender]_vars

----------------------------------------------------------------------------
(* The second variant of the script (lines 379-758), on the state `t` of   *)
(* its own page.                                                           *)

\* lines 568-739: the same rules, every declaration marked !important
Css2 == "ltd-flyout rules !important"

\* lines 404-412
V2_TargetPath(type, selectedValue) ==
    IF type = "language"
    THEN ReplaceFirst(Pathname, <<"/", curLang, "/">>,
                      <<"/", selectedValue, "/">>)
    ELSE IF type = "version"
    THEN ReplaceFirst(Pathname, <<"/", curVer, "/">>,
                      <<"/", selectedValue, "/">>)
    ELSE <<"undefined">>

\* lines 415-417
V2_TargetUrl(type, selectedValue) ==
    (IF IS_LOCAL THEN <<"file:", "/", "/">> ELSE SERVER_ROOT)
    \o V2_TargetPath(type, selectedValue)

\* lines 438-440
V2_FallbackUrl(type, selectedValue) ==
    FLYOUT_JS_DIR
    \o <<"/", IF type = "language" THEN selectedValue ELSE curLang>>
    \o <<"/", IF type = "version" THEN selectedValue ELSE curVer>>
    \o <<"/", "index.html">>

\* Mutant: the second variant returns the probed URL whatever the probe
\* reported.
V2_AfterProbe_NoFallback(type, selectedValue, outcome) ==
    V2_TargetUrl(type, selectedValue)

\* lines 422-440: the value getTargetUrl returns once fetch has settled
V2_AfterProbe(type, selectedValue, outcome) ==
    IF outcome = "ok" THEN V2_TargetUrl(type, selectedValue)
    ELSE V2_FallbackUrl(type, selectedValue)

\* lines 451-457: filter(...).map(...)
V2_OptionsOf(entries, current) ==
    LET kept == SelectSeq(entries, LAMBDA e : e[1] # "newline")
    IN  [i \in DOMAIN kept |->
            [value |-> kept[i][1], selected |-> (kept[i][1] = current)]]

\* lines 459-463
V2_sortedProjects ==
    [i \in DOMAIN config.projects |->
        LET project == config.projects[i][1]
            link    == config.projects[i][2]
        IN  IF project = "newline"
            THEN [class |-> "newline", href |-> "", text |-> ""]
            ELSE [class |-> "options", href |-> link, text |-> project]]

\* lines 567-743
V2_addStyles(t) ==
    [t EXCEPT !.startup = Append(@, "addStyles"),
              !.dom.styles = Append(@, Css2)]

\* lines 450-510
V2_createFlyout(t) ==
    [t EXCEPT !.startup = Append(@, "createFlyout"),
              !.dom.flyouts = @ + 1,
              !.dom.languageOptions = V2_OptionsOf(config.languages, curLang),
              !.dom.versionOptions = V2_OptionsOf(config.versions, curVer),
              !.dom.projects = V2_sortedProjects,
              !.contentClosed = TRUE,
              !.dividerClosed = TRUE,
              !.labelHidden = FALSE,
              !.iconOnly = FALSE]

\* lines 557-559
V2_updateLinks(t) == [t EXCEPT !.startup = Append(@, "updateLinks")]

\* lines 753-757
V2_OnDOMContentLoaded(t) == V2_updateLinks(V2_createFlyout(V2_addStyles(t)))

\* lines 525-529: toggle("ltd-flyout-closed") on the content, then
\* toggle("ltd-flyout-closed", isHidden) on the dividers
V2_LabelListener(t) ==
    [t EXCEPT !.contentClosed = ~t.contentClosed,
              !.dividerClosed = ~t.contentClosed]

\* lines 532-540
V2_IconListener(t) ==
    IF ~t.labelHidden
    THEN [t EXCEPT !.labelHidden = TRUE, !.iconOnly = TRUE,
                   !.contentClosed = TRUE, !.dividerClosed = TRUE]
    ELSE [t EXCEPT !.labelHidden = FALSE, !.iconOnly = FALSE]

\* lines 543-548
V2_DocumentListener(t, target) ==
    IF ~Contains("flyout", target)
    THEN [t EXCEPT !.contentClosed = TRUE, !.dividerClosed = TRUE]
    ELSE t

\* A click on `target` in the second variant's page: the label and icon
\* listeners stop the propagation (lines 526, 533), every other click
\* bubbles up to the document listener.
V2_Click(t, target) ==
    IF Contains("label", target) THEN V2_LabelListener(t)
    ELSE IF Contains("icon", target) THEN V2_IconListener(t)
    ELSE V2_DocumentListener(t, target)

\* lines 513-522 with getTargetUrl up to its first suspension: change
\* event number `id`
V2_SelectChange(t, id, type, value) ==
    IF IS_LOCAL
    THEN [t EXCEPT !.resolved = [id |-> id, outcome |-> "none",
                                 url |-> V2_TargetUrl(type, value)],
                   !.navTarget = V2_TargetUrl(type, value)]
    ELSE [t EXCEPT !.requests = Append(@, [id |-> id, method |-> "HEAD",
                                           url |-> V2_TargetUrl(type, value)]),
                   !.pending = @ \cup {id}]

\* the probe of change event `id` settles in the second variant's page
V2_ProbeSettles(t, id, outcome) ==
    LET url == V2_AfterProbe(selections[id].type, selections[id].value, outcome)
    IN  [t EXCEPT !.pending = @ \ {id},
                  !.resolved = [id |-> id, outcome |-> outcome, url |-> url],
                  !.navTarget = url]

\* Two pages with the same configuration and context, one per variant,
\* receive the same events and the same probe outcomes.
NextPair ==
    \/ DOMContentLoaded /\ twin' = V2_OnDOMContentLoaded(twin)
    \/ \E t \in ClickTargets : Click(t) /\ twin' = V2_Click(twin, t)
    \/ \E type \in Axes : \E v \in OptionValues(type) :
          /\ SelectChange(type, v)
          /\ twin' = V2_SelectChange(twin, Len(selections) + 1, type, v)
    \/ \E id \in 1..MaxSelections, o \in ProbeOutcomes :
          ProbeSettles(id, o) /\ twin' = V2_ProbeSettles(twin, id, o)

PairSpec == Init /\ [][NextPair]_vars

----------------------------------------------------------------------------
(* Properties of the URL resolver and of navigation *)

\* the selection whose resolution completed last, and its code
ResolvedSel  == selections[resolved.id]
ResolvedCode == ResolvedSel.value

Served == href[1] = "https:"
Local  == href[1] = "file:" /\ href[2] = "/"

\* <asset-dir>/<lang>/<version>/index.html with the given two codes
FallbackShape(lang, version) ==
    FLYOUT_JS_DIR \o <<"/", lang, "/", version, "/", "index.html">>

\* the fallback for a selection: the selected axis carries `code`, the
\* other axis its current code
ExpectedFallback(type, code) ==
    IF type = "language" THEN FallbackShape(code, curVer)
    ELSE FallbackShape(curLang, code)

ScenarioPage ==
    /\ href = <<"https:", "/", "/", "example.org",
                "/", "en-us", "/", "latest", "/", "guide.html">>
    /\ curLang = "en-us"
    /\ curVer = "latest"

\* C1: in a served context a completed resolution delivers origin +
\* substituted path when the probe reported success, and otherwise (a
\* non-success status or a failed probe) the fallback
\* <asset-dir>/<lang>/<version>/index.html in which the requested axis
\* carries the selected code and the other axis its current code.
C1_ProbeDecidesResult ==
    (Served /\ resolved.id # 0) =>
        /\ resolved.outcome \in ProbeOutcomes
        /\ resolved.outcome = "ok" =>
              resolved.url = SubSeq(href, 1, 4)
                             \o TargetPath(ResolvedSel.type, ResolvedCode)
        /\ resolved.outcome # "ok" =>
              resolved.url = ExpectedFallback(ResolvedSel.type, ResolvedCode)
        /\ (ScenarioPage /\ ResolvedSel.type = "version" /\ ResolvedCode = "3.9"
              /\ resolved.outcome # "ok") =>
              resolved.url = <<"https:", "/", "/", "example.org",
                               "/", "en-us", "/", "3.9", "/", "index.html">>

\* The scenario of the specification: version 3.9 selected on
\* /en-us/latest/guide.html, the probe answers with a non-success status.
C1_Witness ==
    /\ ScenarioPage
    /\ resolved.id # 0
    /\ resolved.outcome = "notok"
    /\ ResolvedSel.type = "version"
    /\ ResolvedCode = "3.9"
    /\ requests[resolved.id].url =
          <<"https:", "/", "/", "example.org",
            "/", "en-us", "/", "3.9", "/", "guide.html">>
    /\ navTarget = <<"https:", "/", "/", "example.org",
                     "/", "en-us", "/", "3.9", "/", "index.html">>

\* The page path as segments: segment k is token 2k of the path.
NumSegments == Len(Pathname) \div 2
SegmentAt(k) == Pathname[2 * k]

\* The page lies at <prefix>/<lang>/<version>/<rest>, the language segment
\* being segment k (both followed by a separator).
LayoutAt(k) ==
    /\ k >= 1
    /\ k + 1 < NumSegments
    /\ SegmentAt(k) = curLang
    /\ SegmentAt(k + 1) = curVer

LayoutPositions == {k \in 1..NumSegments : LayoutAt(k)}

AxisSegment(type, k) == IF type = "language" THEN k ELSE k + 1

\* the path with segment k replaced, every other token as it was
WithSegment(k, code) == [Pathname EXCEPT ![2 * k] = code]

\* the path part of the URL getTargetUrl built for selection `id`
BuiltPath(id) ==
    IF Local THEN SubSeq(resolved.url, 4, Len(resolved.url))
    ELSE SubSeq(requests[id].url, 5, Len(requests[id].url))

\* the selections whose built URL the state still shows
BuiltIds == IF Local THEN {resolved.id} \ {0} ELSE 1..Len(requests)

\* C2: when the page path holds the segment of the axis's current code,
\* the path getTargetUrl builds has exactly that axis's segment replaced by
\* the selected code and every other segment unchanged, also when the same
\* code occurs in another segment or the two current codes are equal.
C2_AxisSegmentReplaced ==
    \A id \in BuiltIds :
        \A k \in LayoutPositions :
            Cardinality(LayoutPositions) = 1 =>
                BuiltPath(id) =
                    WithSegment(AxisSegment(selections[id].type, k),
                                selections[id].value)

\* C3: no input lock: a change event is accepted while a probe is pending;
\* any pending resolution may complete next; and the resolution that
\* completed last is the one whose result window.location holds.
C3_LastCompletionNavigates ==
    /\ resolved.id # 0 => navTarget = resolved.url
    /\ \A id \in pending : \A o \in ProbeOutcomes : ENABLED ProbeSettles(id, o)
    /\ (pending # {} /\ Len(selections) < MaxSelections) =>
          /\ ENABLED (\E v \in OptionValues("language") : LanguageChange(v))
          /\ ENABLED (\E v \in OptionValues("version") : VersionChange(v))

\* Two probes were in flight at once, the second selection completed first,
\* and the navigation target is the first selection's, which no outcome of
\* the final selection would have produced.
C3_Witness ==
    /\ Len(selections) = 2
    /\ Len(requests) = 2
    /\ pending = {}
    /\ resolved.id = 1
    /\ navTarget = resolved.url
    /\ navTarget # <<>>
    /\ \A o \in ProbeOutcomes :
          navTarget # AfterProbe(selections[2].type,
                                 selections[2].value, o).value

\* C4: getTargetUrl never delivers an error: a non-success status and a
\* network failure give the same fallback URL for the same axis and code,
\* and the handler always has a URL to assign to window.location.
C4_FailuresBecomeFallback ==
    /\ \A type \in Axes : \A code \in OptionValues(type) :
              /\ \A o \in ProbeOutcomes : ~AfterProbe(type, code, o).threw
              /\ AfterProbe(type, code, "notok").value
                    = AfterProbe(type, code, "error").value
              /\ AfterProbe(type, code, "error").value
                    = ExpectedFallback(type, code)
    /\ resolved.id # 0 =>
          /\ resolved.url # <<>>
          /\ resolved.url[1] \in {"https:", "file:"}
          /\ navTarget = resolved.url

\* a probe failed at the network level and the handler navigated to the
\* fallback
C4_Witness ==
    /\ resolved.id # 0
    /\ resolved.outcome = "error"
    /\ navTarget = ExpectedFallback(ResolvedSel.type, ResolvedCode)

\* C5: on a page loaded from file:/ no probe is ever issued or pending,
\* every change event is resolved in its own step, and the result is
\* file:// + substituted path, never the fallback.
C5_LocalNeverProbes ==
    Local =>
        /\ pending = {}
        /\ requests = <<>>
        /\ resolved.id = Len(selections)
        /\ resolved.id # 0 =>
              /\ resolved.outcome = "none"
              /\ resolved.url = <<"file:", "/", "/">>
                                \o TargetPath(ResolvedSel.type, ResolvedCode)
              /\ resolved.url # ExpectedFallback(ResolvedSel.type, ResolvedCode)
              /\ navTarget = resolved.url

\* a local page on which two change events have been resolved
C5_Witness ==
    /\ Local
    /\ Len(selections) = 2
    /\ resolved.id = 2
    /\ navTarget = <<"file:", "/", "/", "/", "zh-cn", "/", "latest", "/", "guide.html">>

----------------------------------------------------------------------------
(* Properties of the visibility state *)

IconTargets    == {t \in ClickTargets : Contains("icon", t)}
LabelTargets   == {t \in ClickTargets : Contains("label", t)}
InsideTargets  == {t \in ClickTargets : Contains("flyout", t)}
OutsideTargets == ClickTargets \ InsideTargets

flags == <<contentClosed, dividerClosed, labelHidden, iconOnly>>

\* C6: a click on the header icon toggles the label; when it hides the
\* label it collapses content and divider in the same step; when it
\* restores the label the content stays as it was, so after a hiding click
\* the next icon click shows the label with the content still collapsed.
C6_IconClick ==
    [][\A t \in IconTargets : Click(t) =>
          /\ labelHidden' = ~labelHidden
          /\ iconOnly' = labelHidden'
          /\ labelHidden' => (contentClosed' /\ dividerClosed')
          /\ ~labelHidden' => (contentClosed' = contentClosed
                               /\ dividerClosed' = dividerClosed)
          /\ contentClosed => contentClosed'
          /\ (lastClick.ran = <<"icon">> /\ labelHidden) =>
                (~labelHidden' /\ contentClosed')
      ]_vars

\* the icon was clicked and the label is hidden, the content collapsed
C6_Witness ==
    /\ lastClick.ran = <<"icon">>
    /\ labelHidden
    /\ iconOnly
    /\ contentClosed
    /\ dividerClosed

\* C7: a click outside the widget collapses content and divider, leaves
\* the label as it is, and changes nothing when the content is collapsed
\* already.
C7_OutsideClick ==
    [][\A t \in OutsideTargets : Click(t) =>
          /\ contentClosed'
          /\ dividerClosed'
          /\ labelHidden' = labelHidden
          /\ iconOnly' = iconOnly
          /\ contentClosed => flags' = flags
      ]_vars

\* an outside click has acted on a widget whose label is hidden
C7_Witness ==
    /\ lastClick = [area |-> "outside", ran |-> <<"document">>]
    /\ contentClosed
    /\ dividerClosed
    /\ labelHidden

\* C8: a click on the header label toggles the content, and in every
\* reachable state the divider is hidden exactly when the content is
\* collapsed.
C8_DividerMirrorsContent ==
    /\ [](dividerClosed = contentClosed)
    /\ [][\A t \in LabelTargets : Click(t) =>
             contentClosed' = ~contentClosed]_vars

\* a label click has expanded content and divider
C8_Witness ==
    /\ lastClick.ran = <<"label">>
    /\ ~contentClosed
    /\ ~dividerClosed

\* C9: a click inside the widget never causes the outside-click collapse:
\* for a label or icon click the document listener does not run; for any
\* other click inside the widget it runs and changes nothing; and a label
\* click on a collapsed widget ends with the content expanded.
C9_InsideClicksDoNotCollapse ==
    [][\A t \in InsideTargets : Click(t) =>
          /\ t \in (LabelTargets \cup IconTargets) =>
                ~(\E i \in 1..Len(lastClick'.ran) : lastClick'.ran[i] = "document")
          /\ t \notin (LabelTargets \cup IconTargets) =>
                (lastClick'.ran = <<"document">> /\ flags' = flags)
          /\ (t \in LabelTargets /\ contentClosed) => ~contentClosed'
      ]_vars

\* a click inside the expanded widget reached the document listener and the
\* content is still expanded
C9_Witness ==
    /\ lastClick = [area |-> "inside", ran |-> <<"document">>]
    /\ ~contentClosed
    /\ ~dividerClosed

----------------------------------------------------------------------------
(* Termination of a resolution *)

\* C10: every change event is followed by getTargetUrl returning a URL that
\* the handler assigns to window.location: on a local page in the step of
\* the event, on a served page once the probe has settled; one request is
\* issued per event and none is repeated.
C10_ResolutionTerminates ==
    /\ \A id \in 1..MaxSelections :
          (id \in pending) ~>
              (resolved.id = id /\ resolved.url # <<>> /\ navTarget = resolved.url)
    /\ [](Served => /\ Len(requests) = Len(selections)
                    /\ \A i \in 1..Len(requests) : requests[i].id = i
                    /\ pending \subseteq 1..Len(selections))
    /\ [](Local => /\ resolved.id = Len(selections)
                   /\ resolved.id # 0 =>
                         (resolved.url # <<>> /\ navTarget = resolved.url))

\* both probes of a served page have settled, the second with a failure
C10_Witness ==
    /\ Served
    /\ Len(selections) = 2
    /\ pending = {}
    /\ resolved.id = 2
    /\ resolved.outcome = "error"
    /\ navTarget = resolved.url
    /\ navTarget # <<>>

----------------------------------------------------------------------------
(* Selections that do not change the path *)

\* the page path has no directory segment equal to `code`, that is, it
\* does not contain /code/
LacksSegment(code) ==
    \A k \in 1..(NumSegments - 1) : SegmentAt(k) # code

CurrentCode(type) == IF type = "language" THEN curLang ELSE curVer

\* scheme and authority of a served page, "file://" of a local one
UrlPrefix == IF Local THEN <<"file:", "/", "/">> ELSE SubSeq(href, 1, 4)

\* C11: when the page path does not contain /<current code>/ for the
\* chosen axis, the substituted path is the page path itself, and the
\* primary result is that path behind file:// on a local page and behind
\* the origin on a served page (where it is the URL probed, and the URL
\* returned once the probe succeeds).
C11_MissingSegmentKeepsPath ==
    /\ \A id \in BuiltIds :
          LacksSegment(CurrentCode(selections[id].type)) =>
              /\ BuiltPath(id) = Pathname
              /\ Served => requests[id].url = UrlPrefix \o Pathname
    /\ (resolved.id # 0 /\ LacksSegment(CurrentCode(ResolvedSel.type))
          /\ resolved.outcome \in {"none", "ok"}) =>
          resolved.url = UrlPrefix \o Pathname

\* A version is selected on a served page whose path has no /latest/
\* segment, the probe succeeds, and the page navigates to its own path.
C11_Witness ==
    /\ Served
    /\ Pathname = <<"/", "en-us", "/", "guide.html">>
    /\ resolved.id # 0
    /\ ResolvedSel.type = "version"
    /\ ResolvedCode = "3.9"
    /\ resolved.outcome = "ok"
    /\ navTarget = <<"https:", "/", "/", "example.org",
                     "/", "en-us", "/", "guide.html">>

----------------------------------------------------------------------------
(* Rendering of the configuration lists *)

IsSentinel(entry) == entry[1] = "newline"
NonSentinel(entries) == SelectSeq(entries, LAMBDA e : ~IsSentinel(e))

\* the codes (for projects: the names) of a list of entries, in order
Codes(entries) == [i \in DOMAIN entries |-> entries[i][1]]

\* the values of the rendered options, in document order
Values(options) == [i \in DOMAIN options |-> options[i].value]

\* the rendered project links as (name, link) pairs, in document order
Links(items) ==
    LET links == SelectSeq(items, LAMBDA d : d.class = "options")
    IN  [i \in DOMAIN links |-> <<links[i].text, links[i].href>>]

\* C12: once the widget is built, no sentinel entry has become an option
\* or a link; the options of either select are the non-sentinel entries of
\* its list in configuration order, and so are the project links; a
\* project sentinel is a layout break at its own position, a language or
\* version sentinel leaves nothing in the document.
C12_SentinelRendering ==
    pc = "ready" =>
        /\ \A i \in DOMAIN dom.languageOptions :
              dom.languageOptions[i].value # "newline"
        /\ \A i \in DOMAIN dom.versionOptions :
              dom.versionOptions[i].value # "newline"
        /\ \A i \in DOMAIN dom.projects :
              dom.projects[i].class = "options" =>
                  dom.projects[i].text # "newline"
        /\ Values(dom.languageOptions) = Codes(NonSentinel(config.languages))
        /\ Values(dom.versionOptions) = Codes(NonSentinel(config.versions))
        /\ Links(dom.projects) = NonSentinel(config.projects)
        /\ Len(dom.projects) = Len(config.projects)
        /\ \A i \in DOMAIN config.projects :
              IsSentinel(config.projects[i]) <=>
                  dom.projects[i] = [class |-> "newline", href |-> "", text |-> ""]

\* Every list has its sentinel between two entries: two options in each
\* select, and link, break, link in the project list.
C12_Witness ==
    /\ pc = "ready"
    /\ Codes(config.languages) = <<"en-us", "newline", "zh-cn">>
    /\ Codes(config.versions) = <<"latest", "newline", "3.9">>
    /\ Codes(config.projects) = <<"GitHub", "newline", "Index">>
    /\ Values(dom.languageOptions) = <<"en-us", "zh-cn">>
    /\ Values(dom.versionOptions) = <<"latest", "3.9">>
    /\ dom.projects[1].class = "options"
    /\ dom.projects[2].class = "newline"
    /\ dom.projects[3].class = "options"

----------------------------------------------------------------------------
(* Probes of a served page *)

\* the requests issued for change event `id`
RequestsOf(id) == {i \in DOMAIN requests : requests[i].id = id}

\* C13: on a served page every select-change event has issued exactly one
\* request, a HEAD request for origin + substituted path; no request is
\* aimed at the event's fallback URL, and the event has no second request,
\* also after its probe failed and the fallback was returned.
C13_OneProbePerChange ==
    Served =>
        /\ Len(requests) = Len(selections)
        /\ \A id \in DOMAIN selections :
              /\ Cardinality(RequestsOf(id)) = 1
              /\ requests[id].id = id
              /\ requests[id].method = "HEAD"
              /\ requests[id].url =
                    SubSeq(href, 1, 4)
                    \o TargetPath(selections[id].type, selections[id].value)
              /\ \A i \in DOMAIN requests :
                    requests[i].url #
                        ExpectedFallback(selections[id].type, selections[id].value)

\* Two change events on a served page, both probes failed and the second
\* fallback was navigated to: two requests, none of them for a fallback.
C13_Witness ==
    /\ Served
    /\ Len(selections) = 2
    /\ pending = {}
    /\ resolved.id = 2
    /\ resolved.outcome \in {"notok", "error"}
    /\ navTarget = ExpectedFallback(selections[2].type, selections[2].value)
    /\ Len(requests) = 2

----------------------------------------------------------------------------
(* Startup *)

StartupOrder == <<"addStyles", "createFlyout", "updateLinks">>

\* the number of times startup function `f` has been called
CallsOf(f) == Cardinality({i \in DOMAIN startup : startup[i] = f})

\* the position of the first call of `f`
FirstCall(f) == CHOOSE i \in DOMAIN startup :
                    startup[i] = f /\ \A j \in 1..(i - 1) : startup[j] # f

\* some widget event handler has run
HandlerHasRun == lastClick # NoClick \/ selections # <<>>

\* C14: handling DOMContentLoaded calls addStyles, createFlyout and
\* updateLinks in this order, each exactly once per page load (the event
\* is not handled a second time); the style block is in the document
\* before the widget is, and no click or change handler of the widget runs
\* or can run before createFlyout has finished.
C14_StartupOrder ==
    /\ pc = "loading" =>
          /\ startup = <<>>
          /\ dom = NoDom
          /\ ~HandlerHasRun
          /\ \A t \in ClickTargets : ~ENABLED Click(t)
          /\ \A type \in Axes, v \in {"en-us", "zh-cn", "latest", "3.9"} :
                ~ENABLED SelectChange(type, v)
    /\ pc = "ready" =>
          /\ startup = StartupOrder
          /\ \A f \in {"addStyles", "createFlyout", "updateLinks"} :
                CallsOf(f) = 1
          /\ FirstCall("addStyles") < FirstCall("createFlyout")
          /\ FirstCall("createFlyout") < FirstCall("updateLinks")
          /\ Len(dom.styles) = 1
          /\ dom.flyouts = 1
          /\ ~ENABLED DOMContentLoaded
    /\ dom.flyouts > 0 => Len(dom.styles) > 0
    /\ HandlerHasRun => CallsOf("createFlyout") = 1

\* The page has been set up and a click handler and a change handler have
\* run since.
C14_Witness ==
    /\ pc = "ready"
    /\ startup = StartupOrder
    /\ lastClick # NoClick
    /\ selections # <<>>

Closed == <<TRUE, TRUE, FALSE, FALSE>>

\* C15: right after construction, before any click has been dispatched,
\* the content is collapsed (contentExpanded = false), the label is shown
\* (labelVisible = true), the divider is hidden and the header is not in
\* icon-only form.
C15_ConstructedCollapsed ==
    (dom.flyouts > 0 /\ lastClick = NoClick) =>
        /\ contentClosed = TRUE
        /\ labelHidden = FALSE
        /\ dividerClosed = TRUE
        /\ iconOnly = FALSE

\* The widget has just been built: no click and no change event yet.
C15_Witness ==
    /\ pc = "ready"
    /\ dom.flyouts = 1
    /\ lastClick = NoClick
    /\ selections = <<>>
    /\ flags = Closed

----------------------------------------------------------------------------
(* Content and label *)

contentExpanded == dom.flyouts > 0 /\ ~contentClosed
labelVisible    == dom.flyouts > 0 /\ ~labelHidden

\* C16: in every reachable state, contentExpanded = true implies
\* labelVisible = true: the content is never shown while the label is
\* hidden.
C16_ContentOnlyWithLabel == contentExpanded => labelVisible

\* C16, amended: the content comes to be shown with the label hidden only
\* by a click on the label dispatched while the label is hidden; icon
\* clicks, outside clicks and label clicks on a shown label keep
\* contentExpanded => labelVisible.
C16_OnlyHiddenLabelClickBreaks ==
    [][ ((contentExpanded => labelVisible)
            /\ ~(contentExpanded' => labelVisible'))
        => (labelHidden /\ \E t \in LabelTargets : Click(t)) ]_vars

\* The content was expanded by a click on the shown label.
C16_Witness ==
    /\ contentExpanded
    /\ labelVisible
    /\ lastClick.ran # <<>>
    /\ lastClick.ran[1] = "label"

----------------------------------------------------------------------------
(* Selecting the current code *)

\* C17: a change event whose value is the axis's current code builds the
\* page's own path; its result is file:// + that path on a local page, and
\* origin + that path on a served page once the probe has succeeded.
C17_CurrentCodeKeepsPath ==
    /\ \A id \in BuiltIds :
          selections[id].value = CurrentCode(selections[id].type) =>
              BuiltPath(id) = Pathname
    /\ (resolved.id # 0 /\ ResolvedCode = CurrentCode(ResolvedSel.type)) =>
          /\ Local => resolved.url = <<"file:", "/", "/">> \o Pathname
          /\ (Served /\ resolved.outcome = "ok") =>
                resolved.url = SubSeq(href, 1, 4) \o Pathname

\* On a served page below /latest/ the version select was moved to 3.9 and
\* back to latest, the current version; the probe for latest succeeded.
C17_Witness ==
    /\ Served
    /\ ~LacksSegment(curVer)
    /\ resolved.id = 2
    /\ ResolvedSel.type = "version"
    /\ ResolvedCode = curVer
    /\ resolved.outcome = "ok"
    /\ navTarget = href

----------------------------------------------------------------------------
(* One axis per resolution *)

\* `url` has a segment equal to `code`
Carries(url, code) == \E n \in DOMAIN url : url[n] = code

\* the codes selected on axis `type` so far that differ from its current code
NewCodes(type) ==
    {selections[i].value : i \in {j \in DOMAIN selections :
        /\ selections[j].type = type
        /\ selections[j].value # CurrentCode(type)}}

\* C18: every URL a resolution builds differs from the page's load-time
\* path in no segment but the one of the requested axis, and its fallback
\* carries the load-time code on the other axis; so, with a language and a
\* version selection both made, no navigation target carries both the
\* newly selected language and the newly selected version.
C18_OnlyRequestedAxisChanges ==
    /\ \A id \in BuiltIds :
          \A k \in LayoutPositions :
              Cardinality(LayoutPositions) = 1 =>
                  /\ Len(BuiltPath(id)) = Len(Pathname)
                  /\ \A j \in 1..NumSegments :
                        j # AxisSegment(selections[id].type, k) =>
                            BuiltPath(id)[2 * j] = SegmentAt(j)
    /\ (resolved.id # 0 /\ resolved.outcome \in {"notok", "error"}) =>
          LET n == Len(resolved.url)
          IN  IF ResolvedSel.type = "language"
              THEN resolved.url[n - 2] = curVer
              ELSE resolved.url[n - 4] = curLang
    /\ navTarget # <<>> =>
          \A l \in NewCodes("language"), v \in NewCodes("version") :
              ~(Carries(navTarget, l) /\ Carries(navTarget, v))

----------------------------------------------------------------------------
(* Duplicate and missing codes *)

\* the rows of `options` marked selected
SelectedRows(options) == {i \in DOMAIN options : options[i].selected}

\* the positions of `entries` that hold `code`
Occurrences(entries, code) == {i \in DOMAIN entries : entries[i][1] = code}

\* what holds of one select: its rows, its list and its current code
RowsMatch(options, entries, current) ==
    /\ Len(options) =
          Cardinality({i \in DOMAIN entries : ~IsSentinel(entries[i])})
    /\ \A i \in DOMAIN options :
          options[i].selected <=> (options[i].value = current)
    /\ Cardinality(SelectedRows(options)) =
          Cardinality(Occurrences(entries, current))
    /\ Occurrences(entries, current) = {} => SelectedRows(options) = {}

\* C19: codes need not be unique: either select has as many rows as its
\* list has non-sentinel entries, duplicates included; a row is
\* pre-selected exactly when its code is the axis's current code, so a
\* current code listed twice marks both of its rows and a current code
\* that is not listed marks none.
C19_RowsAndPreselection ==
    pc = "ready" =>
        /\ RowsMatch(dom.languageOptions, config.languages, curLang)
        /\ RowsMatch(dom.versionOptions, config.versions, curVer)

\* The current version is listed twice and both rows are marked; the
\* current language is not listed and no language row is marked.
C19_Witness ==
    /\ pc = "ready"
    /\ Codes(config.versions) = <<"latest", "3.9", "latest">>
    /\ curVer = "latest"
    /\ SelectedRows(dom.versionOptions) = {1, 3}
    /\ curLang = "latest"
    /\ Len(dom.languageOptions) = 3
    /\ SelectedRows(dom.languageOptions) = {}

----------------------------------------------------------------------------
(* The two variants *)

\* the document without its style elements
Unstyled(d) == [d EXCEPT !.styles = <<>>]

\* C20: the two variants, given the same configuration, context, events
\* and probe outcomes, are in the same visibility state after every event,
\* have issued the same probes and have navigated to the same targets;
\* their documents differ in the text of the injected style element and in
\* nothing else.
C20_VariantsAgree ==
    /\ <<twin.contentClosed, twin.dividerClosed,
         twin.labelHidden, twin.iconOnly>> = flags
    /\ twin.requests = requests
    /\ twin.pending = pending
    /\ twin.resolved = resolved
    /\ twin.navTarget = navTarget
    /\ twin.startup = startup
    /\ Unstyled(twin.dom) = Unstyled(dom)
    /\ Len(twin.dom.styles) = Len(dom.styles)
    /\ \A i \in DOMAIN dom.styles : twin.dom.styles[i] # dom.styles[i]

\* Both pages went through a click that expanded the content and a failed
\* probe, and both navigated to the same fallback.
C20_Witness ==
    /\ Served
    /\ resolved.id # 0
    /\ resolved.outcome = "notok"
    /\ twin.navTarget = navTarget
    /\ navTarget # <<>>
    /\ ~twin.contentClosed
    /\ lastClick.ran = <<"label">>
    /\ twin.dom.styles = <<Css2>>
    /\ dom.styles = <<Css>>

----------------------------------------------------------------------------
(* Visibility and navigation *)

\* C21: a step that records a change event, issues a probe or completes a
\* resolution leaves the content, the label, the divider and the header
\* as they were; a step in which click listeners ran or a visibility class
\* changed issues no probe, completes no resolution and does not assign
\* window.location; while probes are pending, the classes change by
\* clicks alone.
C21_VisibilityNavigationIndependent ==
    [][ /\ (selections' # selections \/ requests' # requests
              \/ pending' # pending \/ resolved' # resolved
              \/ navTarget' # navTarget)
           => (flags' = flags /\ lastClick' = lastClick)
        /\ (flags' # flags \/ lastClick' # lastClick)
           => /\ requests' = requests
              /\ pending' = pending
              /\ resolved' = resolved
              /\ navTarget' = navTarget
              /\ selections' = selections
        /\ (pending # {} /\ flags' # flags)
           => (lastClick' # lastClick \/ lastClick'.ran # <<>>) ]_vars

\* The content was expanded by a label click; since then one resolution
\* has completed and navigated while another probe is still pending, and
\* the content is still expanded.
C21_Witness ==
    /\ Served
    /\ ~contentClosed
    /\ ~labelHidden
    /\ lastClick.ran = <<"label">>
    /\ Len(selections) = 2
    /\ resolved.id = 1
    /\ navTarget # <<>>
    /\ pending = {2}

----------------------------------------------------------------------------
(* Substituting there and back *)

\* lines 31, 33 on a page with path `path` and current code `current`:
\* currentPath.replace(`/${current}/`, `/${selectedValue}/`)
SubstitutedPath(path, current, selectedValue) ==
    ReplaceFirst(path, Segment(current), Segment(selectedValue))

\* C22: when the page path contains /A/ for the axis's current code A and
\* code B is selected, substituting B by A in the path built (as the page
\* reached, whose current code is B, would do when A is selected there)
\* gives the page path again.
C22_SubstitutionRoundTrips ==
    \A id \in BuiltIds :
        LET A == CurrentCode(selections[id].type)
            B == selections[id].value
        IN  ~LacksSegment(A) =>
                SubstitutedPath(BuiltPath(id), B, A) = Pathname

====
